---- MODULE Spec2Model ----
\* Rotary encoder driver of avrlib: RotaryEncoder (quadrature decoder with a
\* rate limiter) and RotaryEncoderTracker (event latch), over the debounced
\* inputs of avrlib/devices/debounce.h and the millisecond clock of
\* avrlib/time.h.
EXTENDS Integers, Sequences, FiniteSets, TLC

\* ---------------------------------------------------------------------------
\* Bounds of the model
\* ---------------------------------------------------------------------------
MaxSamples == 2        \* number of RotaryEncoder::Read() calls in a behaviour
MaxTicks == 3          \* number of clock advances in a behaviour

\* ---------------------------------------------------------------------------
\* Program constants
\* ---------------------------------------------------------------------------
debounce_time == 1     \* template parameter of RotaryEncoder, default value
ClockWidth == 32       \* uint32_t milliseconds() / next_readout_
ByteWidth == 8         \* uint8_t histories, uint8_t accessors

ByteMod == 2 ^ ByteWidth
Bit == {0, 1}
Channels == {"A", "B", "Click"}

\* A uint32_t is kept as two 16-bit limbs, value = hi * 2^16 + lo, so that the
\* arithmetic below is exact arithmetic modulo 2^32.
LimbMod == 2 ^ (ClockWidth \div 2)
U32(h, l) == [hi |-> h, lo |-> l]
IsU32(x) == x.hi \in 0..(LimbMod - 1) /\ x.lo \in 0..(LimbMod - 1)
Zero32 == U32(0, 0)
Max32 == U32(LimbMod - 1, LimbMod - 1)

\* The clock advances by one millisecond, or by a long idle period
\* (2^32 - 2 ms) that brings it next to its wrap point.
TickSteps == {U32(0, 1), U32(LimbMod - 1, LimbMod - 2)}

VARIABLES
  pins,            \* raw level of the three input pins, [Channels -> Bit]
  state_,          \* debounce history of each channel, [Channels -> 0..255]
  raised_,         \* one-shot transition flag of the button's debounced input
  clock,           \* milliseconds()
  next_readout_,   \* RotaryEncoder::next_readout_
  increment_,      \* RotaryEncoderTracker::increment_ (int8_t)
  clicked_,        \* RotaryEncoderTracker::clicked_ (uint8_t)
  op,              \* the operation that made the last step
  ret,             \* the value that operation returned (0 for a void one)
  sampled,         \* the channels that operation sampled, in order
  accepted_at,     \* <<clock value>> of the last accepted TimedRead since Init, or <<>>
  nsamples,        \* Read() calls so far
  nticks,          \* clock advances so far
  pc,              \* position of the main-loop consumer (interrupt-driven variant)
  seen,            \* what the consumer read in this frame: [step, click]
  latched,         \* the latch fields that operation set: subset of {"step", "click"}
  SPSR,            \* SPI status register
  SPDR,            \* SPI data register
  UCSR0A,          \* USART0 control and status register A
  UDR0,            \* USART0 data register
  slave_select,    \* level of each master's SlaveSelect pin
  shifting,        \* whether each peripheral is shifting a byte out
  spi_call,        \* the call in progress: [master, fn, todo]
  spi_pc           \* position of that call

vars == <<pins, state_, raised_, clock, next_readout_, increment_, clicked_,
          op, ret, sampled, accepted_at, nsamples, nticks, pc, seen, latched,
          SPSR, SPDR, UCSR0A, UDR0, slave_select, shifting, spi_call, spi_pc>>

\* The registers and pins of the two serial peripherals, and the call on them.
serial == <<SPSR, SPDR, UCSR0A, UDR0, slave_select, shifting, spi_call, spi_pc>>

\* ---------------------------------------------------------------------------
\* Integer conversions and bit operations
\* ---------------------------------------------------------------------------
\* conversion of an int8_t to uint8_t
ToUint8(x) == x % ByteMod

\* x & 0xf0 for an 8-bit x
AndF0(x) == (x \div 16) * 16

\* uint32_t addition and subtraction (modulo 2^32)
AddU32(x, y) ==
  LET l == x.lo + y.lo
      c == l \div LimbMod
  IN  U32((x.hi + y.hi + c) % LimbMod, l % LimbMod)

SubU32(x, y) ==
  LET l == x.lo - y.lo
      b == IF l < 0 THEN 1 ELSE 0
  IN  U32((x.hi - y.hi - b) % LimbMod, l % LimbMod)

\* unsigned comparisons of two uint32_t
GeqU32(x, y) == x.hi > y.hi \/ (x.hi = y.hi /\ x.lo >= y.lo)
LtU32(x, y) == ~GeqU32(x, y)

\* ---------------------------------------------------------------------------
\* DebouncedSwitch (avrlib/devices/debounce.h)
\* ---------------------------------------------------------------------------
\* One sampling tick: bit 7 receives the new sample, the oldest bit (bit 0)
\* is discarded.
Switch_Shift(h, level) == (h \div 2) + 128 * level

\* A full transition: a clean edge in the most recent sample.  Each sampling
\* tick leaves the one-shot flag at "the tick completed a full transition";
\* reading the flag clears it.
Switch_Transition(h) == h = 128

\* History of a debounced input after Init().
Switch_InitState == 0

\* ---------------------------------------------------------------------------
\* RotaryEncoder
\* ---------------------------------------------------------------------------
\* Variant of the decision: neither branch tests the other channel's nibble.
Decode_NoNibbles(a, b) ==
  IF a = 128 THEN 1
  ELSE IF b = 128 THEN -1
  ELSE 0

\* Variants of the decision: the -1 branch tested without the nibble of a;
\* the +1 branch tested without the nibble of b.
Decode_LooseMinus(a, b) ==
  IF a = 128 /\ AndF0(b) = 0 THEN 1
  ELSE IF b = 128 THEN -1
  ELSE 0

Decode_LoosePlus(a, b) ==
  IF a = 128 THEN 1
  ELSE IF b = 128 /\ AndF0(a) = 0 THEN -1
  ELSE 0

\* The decision of RotaryEncoder::Read() on the two sampled histories.
Decode(a, b) ==
  IF a = 128 /\ AndF0(b) = 0 THEN 1
  ELSE IF b = 128 /\ AndF0(a) = 0 THEN -1
  ELSE 0

\* State of the three debounced inputs after RotaryEncoder::Read() sampled
\* them while the pins were at the levels p.
SampledState(p) == [c \in Channels |-> Switch_Shift(state_[c], p[c])]

\* The deadline test of RotaryEncoder::TimedRead().
Due(t, deadline) == GeqU32(t, deadline)

\* ---------------------------------------------------------------------------
\* Serial peripherals (spi.h): registers and bit operations
\* ---------------------------------------------------------------------------
SPIF == 7              \* transfer-complete bit of SPSR
UDRE0 == 5             \* data-register-empty bit of UCSR0A

Masters == {"SpiMaster", "UartSpiMaster"}
SpiBytes == {0, 165, 255}

\* _BV(n)
Bv(n) == 2 ^ n

\* x & y on 8-bit values
RECURSIVE BitAnd(_, _)
BitAnd(x, y) ==
  IF x = 0 \/ y = 0 THEN 0
  ELSE (x % 2) * (y % 2) + 2 * BitAnd(x \div 2, y \div 2)

\* !x
LogicalNot(x) == IF x = 0 THEN 1 ELSE 0

TestBit(reg, n) == BitAnd(reg, Bv(n)) # 0
SetBit(reg, n) == IF TestBit(reg, n) THEN reg ELSE reg + Bv(n)
ClearBit(reg, n) == IF TestBit(reg, n) THEN reg - Bv(n) ELSE reg

\* The condition of the loop in SpiMaster::Wait(): !TransferComplete::value()
SpiWaitCond == LogicalNot(IF TestBit(SPSR, SPIF) THEN 1 ELSE 0) # 0

\* The condition of the loop in UartSpiMaster::Wait(): !UCSR0A & _BV(UDRE0)
UartWaitCond == BitAnd(LogicalNot(UCSR0A), Bv(UDRE0)) # 0

WaitCond(m) == IF m = "SpiMaster" THEN SpiWaitCond ELSE UartWaitCond

\* The hardware flag each master's Wait() is about.
ReadyFlag(m) ==
  IF m = "SpiMaster" THEN TestBit(SPSR, SPIF) ELSE TestBit(UCSR0A, UDRE0)

NoCall == [master |-> "SpiMaster", fn |-> "none", todo |-> <<>>]

\* After Init() of both masters: slave-select high, no transfer under way,
\* the USART's data register empty.
SerialInit ==
  /\ SPSR = 0
  /\ SPDR = 0
  /\ UCSR0A = Bv(UDRE0)
  /\ UDR0 = 0
  /\ slave_select = [m \in Masters |-> 1]
  /\ shifting = [m \in Masters |-> FALSE]
  /\ spi_call = NoCall
  /\ spi_pc = "idle"

TypeOK ==
  /\ pins \in [Channels -> Bit]
  /\ state_ \in [Channels -> 0..(ByteMod - 1)]
  /\ raised_ \in BOOLEAN
  /\ IsU32(clock)
  /\ IsU32(next_readout_)
  /\ increment_ \in {-1, 0, 1}
  /\ clicked_ \in Bit

Init ==
  /\ pins = [c \in Channels |-> 0]
  /\ state_ = [c \in Channels |-> 0]
  /\ raised_ = FALSE
  /\ clock = Zero32
  /\ next_readout_ = Zero32
  /\ increment_ = 0
  /\ clicked_ = 0
  /\ op = "boot"
  /\ ret = 0
  /\ sampled = <<>>
  /\ accepted_at = <<>>
  /\ nsamples = 0
  /\ nticks = 0
  /\ pc = "idle"
  /\ seen = [step |-> 0, click |-> 0]
  /\ latched = {}
  /\ SerialInit

consumer == <<pc, seen>>

\* Time passes.
Tick ==
  /\ nticks < MaxTicks
  /\ \E d \in TickSteps : clock' = AddU32(clock, d)
  /\ nticks' = nticks + 1
  /\ op' = "Tick"
  /\ latched' = {}
  /\ ret' = 0
  /\ sampled' = <<>>
  /\ UNCHANGED <<pins, state_, raised_, next_readout_, increment_, clicked_,
                 accepted_at, nsamples, consumer, serial>>

\* Variant of the body of Read(): it returns as soon as a step is decoded,
\* without sampling the button.
EncoderRead_SkipClick(p, r, fl) ==
  /\ nsamples < MaxSamples
  /\ pins' = p
  /\ r = Decode(SampledState(p)["A"], SampledState(p)["B"])
  /\ IF r = 0
       THEN /\ state_' = SampledState(p)
            /\ fl = Switch_Transition(SampledState(p)["Click"])
            /\ sampled' = <<"A", "B", "Click">>
       ELSE /\ state_' = [SampledState(p) EXCEPT !["Click"] = state_["Click"]]
            /\ fl = raised_
            /\ sampled' = <<"A", "B">>
  /\ nsamples' = nsamples + 1

\* The body of RotaryEncoder::Read(), the pins being at the levels p: it
\* samples A, B and Click, yields the step r and leaves the button's
\* transition flag at fl.
EncoderRead(p, r, fl) ==
  /\ nsamples < MaxSamples
  /\ pins' = p
  /\ state_' = SampledState(p)
  /\ fl = Switch_Transition(SampledState(p)["Click"])
  /\ r = Decode(SampledState(p)["A"], SampledState(p)["B"])
  /\ sampled' = <<"A", "B", "Click">>
  /\ nsamples' = nsamples + 1

\* Variant of the body of Init(): the deadline is reset to the clock's value.
EncoderInit_Now ==
  /\ state_' = [c \in Channels |-> Switch_InitState]
  /\ raised_' = FALSE
  /\ next_readout_' = clock
  /\ accepted_at' = <<>>
  /\ ret' = 0
  /\ sampled' = <<>>
  /\ UNCHANGED <<pins, clock, increment_, clicked_, nsamples, nticks, consumer, serial>>

\* The body of RotaryEncoder::Init()
EncoderInit ==
  /\ state_' = [c \in Channels |-> Switch_InitState]
  /\ raised_' = FALSE
  /\ next_readout_' = Zero32
  /\ accepted_at' = <<>>
  /\ ret' = 0
  /\ sampled' = <<>>
  /\ UNCHANGED <<pins, clock, increment_, clicked_, nsamples, nticks, consumer, serial>>

\* RotaryEncoder::Init()
RotaryEncoder_Init ==
  /\ EncoderInit
  /\ op' = "Init"
  /\ latched' = {}

\* RotaryEncoder::Read()
RotaryEncoder_Read ==
  /\ \E p \in [Channels -> Bit] : \E r \in {-1, 0, 1} : \E fl \in BOOLEAN :
       EncoderRead(p, r, fl) /\ ret' = r /\ raised_' = fl
  /\ op' = "Read"
  /\ latched' = {}
  /\ UNCHANGED <<clock, next_readout_, increment_, clicked_, accepted_at,
                 nticks, consumer, serial>>

\* Variant of TimedRead(): an accepted call leaves the deadline at the
\* current time, without adding debounce_time.
RotaryEncoder_TimedRead_NoAdvance ==
  /\ op' = "TimedRead"
  /\ latched' = {}
  /\ IF Due(clock, next_readout_)
       THEN /\ next_readout_' = clock
            /\ \E p \in [Channels -> Bit] : \E r \in {-1, 0, 1} :
                 \E fl \in BOOLEAN :
                   EncoderRead(p, r, fl) /\ ret' = r /\ raised_' = fl
            /\ accepted_at' = <<clock>>
       ELSE /\ ret' = 0
            /\ sampled' = <<>>
            /\ UNCHANGED <<pins, next_readout_, state_, raised_, nsamples,
                           accepted_at>>
  /\ UNCHANGED <<clock, increment_, clicked_, nticks, consumer, serial>>

\* RotaryEncoder::TimedRead()
RotaryEncoder_TimedRead ==
  /\ op' = "TimedRead"
  /\ latched' = {}
  /\ IF Due(clock, next_readout_)
       THEN /\ next_readout_' = AddU32(clock, U32(0, debounce_time))
            /\ \E p \in [Channels -> Bit] : \E r \in {-1, 0, 1} :
                 \E fl \in BOOLEAN :
                   EncoderRead(p, r, fl) /\ ret' = r /\ raised_' = fl
            /\ accepted_at' = <<clock>>
       ELSE /\ ret' = 0
            /\ sampled' = <<>>
            /\ UNCHANGED <<pins, next_readout_, state_, raised_, nsamples,
                           accepted_at>>
  /\ UNCHANGED <<clock, increment_, clicked_, nticks, consumer, serial>>

\* RotaryEncoder::clicked(): the one-shot flag, cleared by the read
RotaryEncoder_clicked ==
  /\ ret' = (IF raised_ THEN 1 ELSE 0)
  /\ raised_' = FALSE
  /\ op' = "clicked"
  /\ latched' = {}
  /\ sampled' = <<>>
  /\ UNCHANGED <<pins, state_, clock, next_readout_, increment_, clicked_,
                 accepted_at, nsamples, nticks, consumer, serial>>

\* Variant of the body of immediate_value(): it returns the most recent
\* debounced sample instead of the pin's level.
EncoderImmediateValue_Debounced(v) ==
  /\ pins' = [pins EXCEPT !["Click"] = v]
  /\ ret' = state_["Click"] \div 128
  /\ sampled' = <<>>
  /\ UNCHANGED <<state_, raised_, clock, next_readout_, increment_, clicked_,
                 accepted_at, nsamples, nticks, consumer, serial>>

\* The body of RotaryEncoder::immediate_value(): the button pin is at level v
EncoderImmediateValue(v) ==
  /\ pins' = [pins EXCEPT !["Click"] = v]
  /\ ret' = v
  /\ sampled' = <<>>
  /\ UNCHANGED <<state_, raised_, clock, next_readout_, increment_, clicked_,
                 accepted_at, nsamples, nticks, consumer, serial>>

\* RotaryEncoder::immediate_value()
RotaryEncoder_immediate_value ==
  /\ \E v \in Bit : EncoderImmediateValue(v)
  /\ op' = "immediate_value"
  /\ latched' = {}

\* ---------------------------------------------------------------------------
\* RotaryEncoderTracker
\* ---------------------------------------------------------------------------
\* Variant of the latch's Init(): it also clears the latch.
Tracker_Init_Clear ==
  /\ state_' = [c \in Channels |-> Switch_InitState]
  /\ raised_' = FALSE
  /\ next_readout_' = Zero32
  /\ accepted_at' = <<>>
  /\ increment_' = 0
  /\ clicked_' = 0
  /\ ret' = 0
  /\ sampled' = <<>>
  /\ op' = "Tracker_Init"
  /\ latched' = {}
  /\ UNCHANGED <<pins, clock, nsamples, nticks, consumer, serial>>

\* RotaryEncoderTracker::Init()
Tracker_Init ==
  /\ EncoderInit
  /\ op' = "Tracker_Init"
  /\ latched' = {}

\* Variants of the body: the step is read on every call, whether or not one
\* is latched; the click is read only while no step is latched.
TrackerRead_Overwrite ==
  /\ \E mid \in BOOLEAN :
       /\ \E p \in [Channels -> Bit] : \E r \in {-1, 0, 1} :
            /\ EncoderRead(p, r, mid)
            /\ increment_' = r
            /\ latched' = (IF r # 0 THEN {"step"} ELSE {}) \cup
                          (IF clicked_ = 0 /\ mid THEN {"click"} ELSE {})
       /\ IF clicked_ = 0
            THEN /\ clicked_' = (IF mid THEN 1 ELSE 0)
                 /\ raised_' = FALSE
            ELSE /\ raised_' = mid
                 /\ UNCHANGED clicked_
  /\ ret' = 0
  /\ UNCHANGED <<clock, next_readout_, accepted_at, nticks>>

TrackerRead_Nested ==
  /\ IF increment_ = 0
       THEN \E mid \in BOOLEAN :
              /\ \E p \in [Channels -> Bit] : \E r \in {-1, 0, 1} :
                   /\ EncoderRead(p, r, mid)
                   /\ increment_' = r
                   /\ latched' = (IF r # 0 THEN {"step"} ELSE {}) \cup
                                 (IF clicked_ = 0 /\ mid THEN {"click"} ELSE {})
              /\ IF clicked_ = 0
                   THEN /\ clicked_' = (IF mid THEN 1 ELSE 0)
                        /\ raised_' = FALSE
                   ELSE /\ raised_' = mid
                        /\ UNCHANGED clicked_
       ELSE /\ sampled' = <<>>
            /\ latched' = {}
            /\ UNCHANGED <<pins, state_, nsamples, increment_, clicked_, raised_>>
  /\ ret' = 0
  /\ UNCHANGED <<clock, next_readout_, accepted_at, nticks>>

\* Variant of the body: the decoder's click flag is read on every call, also
\* while a click is latched.
TrackerRead_AlwaysClick ==
  /\ \E mid \in BOOLEAN : \E r \in {-1, 0, 1} :
       /\ IF increment_ = 0
            THEN /\ \E p \in [Channels -> Bit] : EncoderRead(p, r, mid)
                 /\ increment_' = r
            ELSE /\ mid = raised_
                 /\ r = 0
                 /\ sampled' = <<>>
                 /\ UNCHANGED <<pins, state_, nsamples, increment_>>
       /\ clicked_' = (IF clicked_ = 1 \/ mid THEN 1 ELSE 0)
       /\ raised_' = FALSE
       /\ latched' = (IF r # 0 THEN {"step"} ELSE {}) \cup
                     (IF clicked_ = 0 /\ mid THEN {"click"} ELSE {})
  /\ ret' = 0
  /\ UNCHANGED <<clock, next_readout_, accepted_at, nticks>>

\* Variant of the body: the step is taken from the throttled TimedRead().
TrackerRead_Timed ==
  /\ \E mid \in BOOLEAN : \E r \in {-1, 0, 1} :
       /\ IF increment_ = 0
            THEN /\ IF Due(clock, next_readout_)
                      THEN /\ next_readout_' = AddU32(clock, U32(0, debounce_time))
                           /\ \E p \in [Channels -> Bit] : EncoderRead(p, r, mid)
                           /\ accepted_at' = <<clock>>
                      ELSE /\ mid = raised_
                           /\ r = 0
                           /\ sampled' = <<>>
                           /\ UNCHANGED <<pins, state_, nsamples, next_readout_,
                                          accepted_at>>
                 /\ increment_' = r
            ELSE /\ mid = raised_
                 /\ r = 0
                 /\ sampled' = <<>>
                 /\ UNCHANGED <<pins, state_, nsamples, increment_,
                                next_readout_, accepted_at>>
       /\ IF clicked_ = 0
            THEN /\ clicked_' = (IF mid THEN 1 ELSE 0)
                 /\ raised_' = FALSE
            ELSE /\ raised_' = mid
                 /\ UNCHANGED clicked_
       /\ latched' = (IF r # 0 THEN {"step"} ELSE {}) \cup
                     (IF clicked_ = 0 /\ mid THEN {"click"} ELSE {})
  /\ ret' = 0
  /\ UNCHANGED <<clock, nticks>>

\* The body of RotaryEncoderTracker::Read()
TrackerRead ==
  /\ \E mid \in BOOLEAN : \E r \in {-1, 0, 1} :
       /\ IF increment_ = 0
            THEN /\ \E p \in [Channels -> Bit] : EncoderRead(p, r, mid)
                 /\ increment_' = r
            ELSE /\ mid = raised_
                 /\ r = 0
                 /\ sampled' = <<>>
                 /\ UNCHANGED <<pins, state_, nsamples, increment_>>
       /\ IF clicked_ = 0
            THEN /\ clicked_' = (IF mid THEN 1 ELSE 0)
                 /\ raised_' = FALSE
            ELSE /\ raised_' = mid
                 /\ UNCHANGED clicked_
       /\ latched' = (IF r # 0 THEN {"step"} ELSE {}) \cup
                     (IF clicked_ = 0 /\ mid THEN {"click"} ELSE {})
  /\ ret' = 0
  /\ UNCHANGED <<clock, next_readout_, accepted_at, nticks>>

\* RotaryEncoderTracker::Read()
Tracker_Read ==
  /\ TrackerRead
  /\ op' = "Tracker_Read"
  /\ UNCHANGED <<consumer, serial>>

\* RotaryEncoderTracker::clicked()
Tracker_clicked ==
  /\ ret' = clicked_
  /\ op' = "Tracker_clicked"
  /\ latched' = {}
  /\ sampled' = <<>>
  /\ UNCHANGED <<pins, state_, raised_, clock, next_readout_, increment_,
                 clicked_, accepted_at, nsamples, nticks, consumer, serial>>

\* RotaryEncoderTracker::increment()
Tracker_increment ==
  /\ ret' = ToUint8(increment_)
  /\ op' = "Tracker_increment"
  /\ latched' = {}
  /\ sampled' = <<>>
  /\ UNCHANGED <<pins, state_, raised_, clock, next_readout_, increment_,
                 clicked_, accepted_at, nsamples, nticks, consumer, serial>>

\* RotaryEncoderTracker::immediate_value()
Tracker_immediate_value ==
  /\ \E v \in Bit : EncoderImmediateValue(v)
  /\ op' = "Tracker_immediate_value"
  /\ latched' = {}

\* Variant of Flush(): the click is left latched.
Tracker_Flush_StepOnly ==
  /\ increment_' = 0
  /\ op' = "Tracker_Flush"
  /\ latched' = {}
  /\ ret' = 0
  /\ sampled' = <<>>
  /\ UNCHANGED <<pins, state_, raised_, clock, next_readout_, accepted_at,
                 nsamples, nticks, clicked_, consumer, serial>>

\* RotaryEncoderTracker::Flush()
Tracker_Flush ==
  /\ increment_' = 0
  /\ clicked_' = 0
  /\ op' = "Tracker_Flush"
  /\ latched' = {}
  /\ ret' = 0
  /\ sampled' = <<>>
  /\ UNCHANGED <<pins, state_, raised_, clock, next_readout_, accepted_at,
                 nsamples, nticks, consumer, serial>>

\* ---------------------------------------------------------------------------
\* The single-threaded polling model of an application that uses the decoder
\* directly: it calls the operations of RotaryEncoder from its control loop,
\* one at a time, while time passes.
\* ---------------------------------------------------------------------------
Next ==
  \/ Tick
  \/ RotaryEncoder_Init
  \/ RotaryEncoder_Read
  \/ RotaryEncoder_TimedRead
  \/ RotaryEncoder_clicked
  \/ RotaryEncoder_immediate_value

Spec == Init /\ [][Next]_vars

\* ---------------------------------------------------------------------------
\* The single-threaded polling model of an application that uses the latch:
\* it calls the operations of RotaryEncoderTracker from its control loop, and
\* may also sample the wrapped decoder directly.
\* ---------------------------------------------------------------------------
NextLatch ==
  \/ Tick
  \/ RotaryEncoder_Read
  \/ Tracker_Init
  \/ Tracker_Read
  \/ Tracker_clicked
  \/ Tracker_increment
  \/ Tracker_immediate_value
  \/ Tracker_Flush

SpecLatch == Init /\ [][NextLatch]_vars

\* The same application, which also reads the wrapped decoder through the
\* rate limiter.
NextLatchTimed ==
  \/ Tick
  \/ RotaryEncoder_TimedRead
  \/ Tracker_Init
  \/ Tracker_Read
  \/ Tracker_Flush

SpecLatchTimed == Init /\ [][NextLatchTimed]_vars

\* ---------------------------------------------------------------------------
\* The decoder applied to arbitrary histories: the debounced inputs of A and
\* B hold any 8-bit history when Read() is called once.
\* ---------------------------------------------------------------------------
InitDecode ==
  /\ pins = [c \in Channels |-> 0]
  /\ \E a \in 0..(ByteMod - 1) : \E b \in 0..(ByteMod - 1) :
       state_ = [c \in Channels |-> IF c = "A" THEN a ELSE IF c = "B" THEN b ELSE 0]
  /\ raised_ = FALSE
  /\ clock = Zero32
  /\ next_readout_ = Zero32
  /\ increment_ = 0
  /\ clicked_ = 0
  /\ op = "boot"
  /\ ret = 0
  /\ sampled = <<>>
  /\ accepted_at = <<>>
  /\ nsamples = 0
  /\ nticks = 0
  /\ pc = "idle"
  /\ seen = [step |-> 0, click |-> 0]
  /\ latched = {}
  /\ SerialInit

ReadOnce == nsamples = 0 /\ RotaryEncoder_Read

NextDecode == ReadOnce

SpecDecode == InitDecode /\ [][NextDecode]_vars

\* ---------------------------------------------------------------------------
\* The interrupt-driven variant: RotaryEncoderTracker::Read() runs in an
\* interrupt handler, which preempts the main loop between any two of its
\* steps and runs to completion; the main loop reads increment() and
\* clicked(), acts on them, and calls Flush(), whose two stores are separate
\* steps.
\* ---------------------------------------------------------------------------
Isr_Read ==
  /\ TrackerRead
  /\ op' = "Isr_Read"
  /\ UNCHANGED <<consumer, serial>>

Main_increment ==
  /\ pc = "idle"
  /\ seen' = [seen EXCEPT !.step = ToUint8(increment_)]
  /\ pc' = "read_clicked"
  /\ op' = "Main_increment"
  /\ latched' = {}
  /\ ret' = ToUint8(increment_)
  /\ sampled' = <<>>
  /\ UNCHANGED <<pins, state_, raised_, clock, next_readout_, increment_,
                 clicked_, accepted_at, nsamples, nticks, serial>>

Main_clicked ==
  /\ pc = "read_clicked"
  /\ seen' = [seen EXCEPT !.click = clicked_]
  /\ pc' = "flush_increment"
  /\ op' = "Main_clicked"
  /\ latched' = {}
  /\ ret' = clicked_
  /\ sampled' = <<>>
  /\ UNCHANGED <<pins, state_, raised_, clock, next_readout_, increment_,
                 clicked_, accepted_at, nsamples, nticks, serial>>

Main_FlushIncrement ==
  /\ pc = "flush_increment"
  /\ increment_' = 0
  /\ pc' = "flush_clicked"
  /\ op' = "Main_FlushIncrement"
  /\ latched' = {}
  /\ ret' = 0
  /\ sampled' = <<>>
  /\ UNCHANGED <<pins, state_, raised_, clock, next_readout_, clicked_,
                 accepted_at, nsamples, nticks, seen, serial>>

Main_FlushClicked ==
  /\ pc = "flush_clicked"
  /\ clicked_' = 0
  /\ pc' = "idle"
  /\ op' = "Main_FlushClicked"
  /\ latched' = {}
  /\ ret' = 0
  /\ sampled' = <<>>
  /\ UNCHANGED <<pins, state_, raised_, clock, next_readout_, increment_,
                 accepted_at, nsamples, nticks, seen, serial>>

NextIsr ==
  \/ Isr_Read
  \/ Main_increment
  \/ Main_clicked
  \/ Main_FlushIncrement
  \/ Main_FlushClicked

SpecIsr == Init /\ [][NextIsr]_vars

\* ---------------------------------------------------------------------------
\* SpiMaster and UartSpiMaster: a call of Write, WriteWord, Send or Wait runs
\* step by step while the peripheral's hardware shifts bytes out on its own.
\* ---------------------------------------------------------------------------
encoder == <<pins, state_, raised_, clock, next_readout_, increment_, clicked_,
             op, ret, sampled, accepted_at, nsamples, nticks, pc, seen, latched>>

\* Write(v)
Spi_Write ==
  /\ spi_pc = "idle"
  /\ \E m \in Masters : \E v \in SpiBytes :
       spi_call' = [master |-> m, fn |-> "Write", todo |-> <<v>>]
  /\ spi_pc' = "begin"
  /\ UNCHANGED <<encoder, SPSR, SPDR, UCSR0A, UDR0, slave_select, shifting>>

\* WriteWord(a, b)
Spi_WriteWord ==
  /\ spi_pc = "idle"
  /\ \E m \in Masters : \E a \in SpiBytes : \E b \in SpiBytes :
       spi_call' = [master |-> m, fn |-> "WriteWord", todo |-> <<a, b>>]
  /\ spi_pc' = "begin"
  /\ UNCHANGED <<encoder, SPSR, SPDR, UCSR0A, UDR0, slave_select, shifting>>

\* Send(v), called on its own
Spi_Send ==
  /\ spi_pc = "idle"
  /\ \E m \in Masters : \E v \in SpiBytes :
       spi_call' = [master |-> m, fn |-> "Send", todo |-> <<v>>]
  /\ spi_pc' = "overwrite"
  /\ UNCHANGED <<encoder, SPSR, SPDR, UCSR0A, UDR0, slave_select, shifting>>

\* Wait(), called on its own
Spi_Wait ==
  /\ spi_pc = "idle"
  /\ \E m \in Masters :
       spi_call' = [master |-> m, fn |-> "Wait", todo |-> <<>>]
  /\ spi_pc' = "wait"
  /\ UNCHANGED <<encoder, SPSR, SPDR, UCSR0A, UDR0, slave_select, shifting>>

\* Begin(): SlaveSelect::Low()
Spi_Begin ==
  /\ spi_pc = "begin"
  /\ slave_select' = [slave_select EXCEPT ![spi_call.master] = 0]
  /\ spi_pc' = "overwrite"
  /\ UNCHANGED <<encoder, SPSR, SPDR, UCSR0A, UDR0, shifting, spi_call>>

\* Overwrite(v): the store to the data register.  The SPI starts shifting
\* and its SPIF is cleared; the USART's data register is no longer empty.
Spi_Overwrite ==
  /\ spi_pc = "overwrite"
  /\ IF spi_call.master = "SpiMaster"
       THEN /\ SPDR' = Head(spi_call.todo)
            /\ SPSR' = ClearBit(SPSR, SPIF)
            /\ shifting' = [shifting EXCEPT !["SpiMaster"] = TRUE]
            /\ UNCHANGED <<UDR0, UCSR0A>>
       ELSE /\ UDR0' = Head(spi_call.todo)
            /\ UCSR0A' = ClearBit(UCSR0A, UDRE0)
            /\ UNCHANGED <<SPDR, SPSR, shifting>>
  /\ spi_call' = [spi_call EXCEPT !.todo = Tail(spi_call.todo)]
  /\ spi_pc' = "wait"
  /\ UNCHANGED <<encoder, slave_select>>

\* Wait(): the loop is left when its condition is false; the call goes on
\* with the next byte, with End(), or returns.
Spi_WaitExit ==
  /\ spi_pc = "wait"
  /\ ~WaitCond(spi_call.master)
  /\ IF spi_call.todo # <<>>
       THEN spi_pc' = "overwrite" /\ UNCHANGED spi_call
       ELSE IF spi_call.fn \in {"Write", "WriteWord"}
              THEN spi_pc' = "end" /\ UNCHANGED spi_call
              ELSE spi_pc' = "idle" /\ spi_call' = NoCall
  /\ UNCHANGED <<encoder, SPSR, SPDR, UCSR0A, UDR0, slave_select, shifting>>

\* End(): SlaveSelect::High()
Spi_End ==
  /\ spi_pc = "end"
  /\ slave_select' = [slave_select EXCEPT ![spi_call.master] = 1]
  /\ spi_pc' = "idle"
  /\ spi_call' = NoCall
  /\ UNCHANGED <<encoder, SPSR, SPDR, UCSR0A, UDR0, shifting>>

\* The SPI hardware has shifted the byte out: SPIF is set.
Hw_SpiComplete ==
  /\ shifting["SpiMaster"]
  /\ shifting' = [shifting EXCEPT !["SpiMaster"] = FALSE]
  /\ SPSR' = SetBit(SPSR, SPIF)
  /\ UNCHANGED <<encoder, SPDR, UCSR0A, UDR0, slave_select, spi_call, spi_pc>>

\* The USART moves the data register into its idle shift register: the data
\* register is empty again (UDRE0 set).
Hw_UartLoad ==
  /\ ~TestBit(UCSR0A, UDRE0)
  /\ ~shifting["UartSpiMaster"]
  /\ shifting' = [shifting EXCEPT !["UartSpiMaster"] = TRUE]
  /\ UCSR0A' = SetBit(UCSR0A, UDRE0)
  /\ UNCHANGED <<encoder, SPSR, SPDR, UDR0, slave_select, spi_call, spi_pc>>

\* The USART has shifted the byte out.
Hw_UartComplete ==
  /\ shifting["UartSpiMaster"]
  /\ shifting' = [shifting EXCEPT !["UartSpiMaster"] = FALSE]
  /\ UNCHANGED <<encoder, SPSR, SPDR, UCSR0A, UDR0, slave_select, spi_call,
                 spi_pc>>

NextSpi ==
  \/ Spi_Write
  \/ Spi_WriteWord
  \/ Spi_Send
  \/ Spi_Wait
  \/ Spi_Begin
  \/ Spi_Overwrite
  \/ Spi_WaitExit
  \/ Spi_End
  \/ Hw_SpiComplete
  \/ Hw_UartLoad
  \/ Hw_UartComplete

SpecSpi == Init /\ [][NextSpi]_vars

\* ===========================================================================
\* Properties
\* ===========================================================================

\* The two conditions of the decoding rule, on the histories a and b.
PlusCond(a, b) == a = 128 /\ b < 16
MinusCond(a, b) == b = 128 /\ a < 16

\* C1: for every pair of histories (a, b) that Read() sampled, the step it
\* returns is +1 exactly when a is 0x80 and the upper nibble of b is clear,
\* -1 exactly when b is 0x80, the upper nibble of a is clear and the +1
\* condition does not hold, and 0 for every other pair; it is always one of
\* -1, 0, +1.
C1_DecodeTable ==
  op = "Read" =>
    LET a == state_["A"]
        b == state_["B"]
    IN  /\ ret \in {-1, 0, 1}
        /\ (ret = 1) <=> PlusCond(a, b)
        /\ (ret = -1) <=> (MinusCond(a, b) /\ ~PlusCond(a, b))
        /\ (~PlusCond(a, b) /\ ~MinusCond(a, b)) => ret = 0

C1_Witness ==
  op = "Read" /\ state_["B"] = 128 /\ state_["A"] = 15 /\ ret = -1

\* C6 (as stated): when both sampled histories are exactly 0x80, Read()
\* returns +1.
C6_TieBreakPlus ==
  (op = "Read" /\ state_["A"] = 128 /\ state_["B"] = 128) => ret = 1

\* C6 (amended): when both sampled histories are exactly 0x80, neither branch
\* of Read() holds (0x80 has a bit of its upper nibble set) and it returns 0.
C6_TieBreakZero ==
  (op = "Read" /\ state_["A"] = 128 /\ state_["B"] = 128) => ret = 0

C6_Witness ==
  op = "Read" /\ state_["A"] = 128 /\ state_["B"] = 128 /\ sampled # <<>>

\* The step the decoder reports for the sampled histories a and b.
StepOf(a, b) == IF PlusCond(a, b) THEN 1 ELSE IF MinusCond(a, b) THEN -1 ELSE 0

\* The one-shot click flag as the decoder reports it after a step from the
\* current state in which the button's history was (or was not) advanced.
ClickAfter(wasSampled, hist) ==
  IF (wasSampled /\ hist = 128) \/ (~wasSampled /\ raised_) THEN 1 ELSE 0

\* C2: once a non-zero step is latched, no operation other than Flush()
\* changes increment_: further calls of the latch's Read() keep exactly that
\* value, neither summing nor overwriting it.
C2_StepSticky ==
  [][(increment_ # 0 /\ op' # "Tracker_Flush") => increment_' = increment_]_vars

C2_Witness ==
  /\ op = "Tracker_Read"
  /\ increment_ = 1
  /\ sampled = <<>>
  /\ latched = {}
  /\ nsamples < MaxSamples

\* C3: after an accepted TimedRead at time now1, a TimedRead at time now2
\* with (now2 - now1) mod 2^32 < debounce_time returns 0, samples no channel
\* and leaves next_readout_ unchanged.
C3_Throttled ==
  [][(/\ op' = "TimedRead"
      /\ accepted_at # <<>>
      /\ LtU32(SubU32(clock, accepted_at[1]), U32(0, debounce_time)))
     => (ret' = 0 /\ sampled' = <<>> /\ next_readout_' = next_readout_)]_vars

\* C4: TimedRead accepts (samples the channels and advances the deadline)
\* whenever the clock is at or after next_readout_ in the modular sense,
\* (clock - next_readout_) mod 2^32 < 2^31.
C4_WrapSafe ==
  [][(/\ op' = "TimedRead"
      /\ SubU32(clock, next_readout_).hi < LimbMod \div 2)
     => (/\ sampled' = <<"A", "B", "Click">>
         /\ next_readout_' = AddU32(clock, U32(0, debounce_time)))]_vars

\* C5: Flush() leaves increment_ = 0 and clicked_ = 0 from any latch state,
\* and the latch is armed again: a Read() of the latch with no step latched
\* samples the decoder and latches the step it reports, and one with no
\* click latched latches the click it reports.
C5_DrainRearms ==
  [][/\ (op' = "Tracker_Flush") => (increment_' = 0 /\ clicked_' = 0)
     /\ (op' = "Tracker_Read" /\ increment_ = 0) =>
          (/\ sampled' = <<"A", "B", "Click">>
           /\ increment_' = StepOf(state_'["A"], state_'["B"]))
     /\ (op' = "Tracker_Read" /\ clicked_ = 0) =>
          clicked_' = ClickAfter(increment_ = 0, state_'["Click"])]_vars

C5_Witness ==
  /\ op = "Tracker_Flush"
  /\ state_["A"] = 128
  /\ state_["B"] = 0
  /\ state_["Click"] = 128
  /\ increment_ = 0
  /\ clicked_ = 0
  /\ ~raised_

\* C7: the accessor increment() returns the latched step as a value of
\* {-1, 0, +1}, equal to increment_, and does not modify the latch.
C7_AccessorDomain ==
  op = "Tracker_increment" => (ret \in {-1, 0, 1} /\ ret = increment_)

\* C8: the click is latched independently of the step: a Read() of the latch
\* with clicked_ = 0 sets clicked_ to the decoder's clicked() value whether
\* or not a step is latched; once set, clicked_ stays set until Flush();
\* a Read() that latches a click leaves a latched step as it is, and a
\* latched click does not keep a step from being latched.
C8_ClickIndependent ==
  [][/\ (op' = "Tracker_Read" /\ clicked_ = 0) =>
          clicked_' = ClickAfter(increment_ = 0, state_'["Click"])
     /\ (clicked_ = 1 /\ op' # "Tracker_Flush") => clicked_' = 1
     /\ ("click" \in latched' /\ increment_ # 0) => increment_' = increment_
     /\ (op' = "Tracker_Read" /\ clicked_ = 1 /\ increment_ = 0) =>
          increment_' = StepOf(state_'["A"], state_'["B"])]_vars

C8_Witness ==
  /\ op = "Tracker_Read"
  /\ latched = {"click"}
  /\ sampled = <<>>
  /\ increment_ = -1
  /\ clicked_ = 1

\* C9: in the interrupt-driven variant, Flush() never clears a step or a
\* click that the consumer has not read: the value each store of Flush()
\* clears is the value the consumer read in this frame.
C9_NoLostEvent ==
  [][/\ (pc = "flush_increment" /\ pc' = "flush_clicked") =>
          seen.step = ToUint8(increment_)
     /\ (pc = "flush_clicked" /\ pc' = "idle") =>
          seen.click = clicked_]_vars

\* C10 (as stated): Init() leaves next_readout_ at the clock's current value.
C10_InitNow ==
  op = "Init" => next_readout_ = clock

\* C10 (amended): Init() leaves next_readout_ at 0, whatever the clock reads,
\* and the first TimedRead after Init() is accepted.
C10_InitZero ==
  [][/\ (op' = "Init") => next_readout_' = Zero32
     /\ (op' = "TimedRead" /\ accepted_at = <<>>) =>
          (/\ accepted_at' = <<clock>>
           /\ sampled' = <<"A", "B", "Click">>
           /\ next_readout_' = AddU32(clock, U32(0, debounce_time)))]_vars

C10_Witness ==
  /\ op = "Init"
  /\ clock = Max32
  /\ next_readout_ = Zero32
  /\ accepted_at = <<>>
  /\ nsamples > 0

\* C11: an accepted TimedRead sets next_readout_ to (now + debounce_time)
\* mod 2^32 and returns the step Read() decodes from the histories sampled in
\* that call; no operation other than Init() and an accepted TimedRead
\* writes next_readout_.
C11_DeadlineAdvance ==
  [][/\ (op' = "TimedRead" /\ sampled' # <<>>) =>
          (/\ next_readout_' = AddU32(clock, U32(0, debounce_time))
           /\ ret' = StepOf(state_'["A"], state_'["B"]))
     /\ (next_readout_' # next_readout_) =>
          (op' = "Init" \/ (op' = "TimedRead" /\ sampled' # <<>>))]_vars

C11_Witness ==
  /\ op = "TimedRead"
  /\ sampled = <<"A", "B", "Click">>
  /\ accepted_at = <<Max32>>
  /\ next_readout_ = Zero32
  /\ ret = 1

\* C12: every call of Read() (directly or from an accepted TimedRead)
\* samples each of the three debounced inputs exactly once, in the order A,
\* B, Click; the button's history is advanced whatever step is returned; and
\* Read() does not consume the button's one-shot flag: after the call the flag
\* tells whether this call's sample completed a transition.
C12_SamplesAllThree ==
  [][/\ (op' = "Read") => sampled' = <<"A", "B", "Click">>
     /\ (op' \in {"Read", "TimedRead"} /\ sampled' # <<>>) =>
          (/\ sampled' = <<"A", "B", "Click">>
           /\ \A c \in Channels :
                state_'[c] = (state_[c] \div 2) + 128 * pins'[c]
           /\ raised_' = (state_'["Click"] = 128))]_vars

C12_Witness ==
  /\ op = "Read"
  /\ ret = 1
  /\ state_["Click"] = 192
  /\ sampled = <<"A", "B", "Click">>

\* C13: the latch holds a step of {-1, 0, +1} and a click of {0, 1} in every
\* state; both are zero until the latch's Read() sets them; and a latched
\* field goes back to zero only by Flush(): neither Read(), the accessors nor
\* a repeated Init() of the latch clears it.
C13_LatchDomain ==
  /\ increment_ = 0 /\ clicked_ = 0
  /\ [](increment_ \in {-1, 0, 1} /\ clicked_ \in {0, 1})
  /\ [][/\ (increment_ = 0 /\ increment_' # 0) => op' = "Tracker_Read"
        /\ (clicked_ = 0 /\ clicked_' # 0) => op' = "Tracker_Read"
        /\ (increment_ # 0 /\ increment_' = 0) => op' = "Tracker_Flush"
        /\ (clicked_ # 0 /\ clicked_' = 0) => op' = "Tracker_Flush"]_vars

C13_Witness ==
  /\ op = "Tracker_Init"
  /\ increment_ = -1
  /\ clicked_ = 1
  /\ state_ = [c \in Channels |-> 0]

\* C14: immediate_value() of the latch returns the button pin's level at the
\* time of the call in every latch state, and neither it nor the accessors
\* increment() and clicked() change the latch fields, next_readout_, the
\* debounce histories or the button's flag.
C14_LivePassThrough ==
  [][/\ (op' = "Tracker_immediate_value") => ret' = pins'["Click"]
     /\ (op' \in {"Tracker_immediate_value", "Tracker_increment",
                  "Tracker_clicked"}) =>
          (/\ increment_' = increment_
           /\ clicked_' = clicked_
           /\ next_readout_' = next_readout_
           /\ state_' = state_
           /\ raised_' = raised_
           /\ sampled' = <<>>)]_vars

C14_Witness ==
  /\ op = "Tracker_immediate_value"
  /\ ret = 1
  /\ pins["Click"] = 1
  /\ state_["Click"] = 0
  /\ increment_ = 1
  /\ clicked_ = 0

\* C15: the latch's Read() calls the decoder's Read() exactly when no step
\* is latched at the time of the call; while a step is latched, a call of
\* the latch's Read() advances none of the three debounce histories.
C15_FrozenWhileLatched ==
  [][(op' = "Tracker_Read") =>
       (/\ (increment_ = 0) <=> (sampled' = <<"A", "B", "Click">>)
        /\ (increment_ # 0) => (sampled' = <<>> /\ state_' = state_
                                /\ nsamples' = nsamples))]_vars

C15_Witness ==
  /\ op = "Tracker_Read"
  /\ increment_ = -1
  /\ sampled = <<>>
  /\ state_["B"] = 128
  /\ state_["Click"] = 0
  /\ pins["Click"] = 1

MinusFirst(a, b) ==
  IF MinusCond(a, b) THEN -1 ELSE IF PlusCond(a, b) THEN 1 ELSE 0

\* C17: for no pair of sampled histories do the +1 and the -1 condition of
\* Read() hold together, and the step Read() returns is the one the rule
\* gives with its branches evaluated in the other order.
C17_BranchesExclusive ==
  op = "Read" =>
    LET a == state_["A"]
        b == state_["B"]
    IN  /\ ~(PlusCond(a, b) /\ MinusCond(a, b))
        /\ (ret = 1) => ~MinusCond(a, b)
        /\ (ret = -1) => ~PlusCond(a, b)
        /\ ret = MinusFirst(a, b)

C17_Witness ==
  /\ op = "Read"
  /\ state_["A"] = 128
  /\ state_["B"] = 128
  /\ pins["A"] = 1
  /\ pins["B"] = 1
  /\ ret = 0

\* C18: the latch bypasses the rate limiter: its Read() and Flush() leave
\* next_readout_ as it is, and a Read() of the latch with no step latched
\* samples the channels whatever the clock and the deadline are, also when
\* TimedRead() would refuse at that clock value.
C18_LatchUnthrottled ==
  [][/\ (op' \in {"Tracker_Read", "Tracker_Flush"}) =>
          (next_readout_' = next_readout_ /\ accepted_at' = accepted_at)
     /\ (op' = "Tracker_Read" /\ increment_ = 0) =>
          sampled' = <<"A", "B", "Click">>]_vars

C18_Witness ==
  /\ op = "Tracker_Read"
  /\ sampled = <<"A", "B", "Click">>
  /\ accepted_at = <<clock>>
  /\ LtU32(clock, next_readout_)
  /\ nsamples = 2

\* C19: the byte transfer is synchronous in both masters: Wait() is left
\* only when the hardware ready flag is set (SPIF for SpiMaster, UDRE0 for
\* UartSpiMaster), so Send(v) returns only after the flag was seen set; in
\* Write and WriteWord slave-select is low when a byte is written and goes
\* high only after the last Send has completed.
C19_SynchronousSend ==
  [][/\ (spi_pc = "wait" /\ spi_pc' # "wait") => ReadyFlag(spi_call.master)
     /\ (spi_pc' = "wait" /\ spi_pc = "overwrite"
           /\ spi_call.fn \in {"Write", "WriteWord"}) =>
          slave_select[spi_call.master] = 0
     /\ (\E m \in Masters : slave_select[m] = 0 /\ slave_select'[m] = 1) =>
          (spi_pc = "end" /\ spi_call.todo = <<>>)]_vars

====
